---- MODULE Spec2Model ----
(***************************************************************************)
(* Model of app.py: the /upload endpoint (upload_resume), its helpers      *)
(* allowed_file and format_recommendations, and the filesystem under       *)
(* UPLOAD_FOLDER that concurrent requests share.                           *)
(*                                                                         *)
(* Text is a sequence of one-character strings.  A Python dict is a        *)
(* function from key strings to values; None and {} are the empty dict.    *)
(***************************************************************************)
EXTENDS Integers, Sequences, FiniteSets, TLC

(***************************************************************************)
(* Bounds                                                                  *)
(***************************************************************************)
\* number of upload requests that may be in flight together
NumReqs == 2
\* largest number of skills a resume profile carries
MaxSkills == 21
\* longest list the recommendation engine returns
MaxRecs == 2
\* longest stem put before the extension of a generated filename
MaxStem == 1

Reqs == 1..NumReqs

(***************************************************************************)
(* Generic helpers                                                         *)
(***************************************************************************)
Min(a, b) == IF a < b THEN a ELSE b

\* dict.get(key, default)
Get(d, k, default) == IF k \in DOMAIN d THEN d[k] ELSE default

\* Python truthiness of a dict-or-None value
Truthy(d) == DOMAIN d # {}

\* str.lower() on the characters of the alphabet
LowerChar(c) ==
    CASE c = "P" -> "p"
      [] c = "D" -> "d"
      [] c = "F" -> "f"
      [] OTHER -> c

Lower(s) == [i \in 1..Len(s) |-> LowerChar(s[i])]

\* s[:n]
Prefix(s, n) == SubSeq(s, 1, Min(Len(s), n))

\* position of the last "." of s, 0 when there is none
LastDot(s) ==
    IF \E i \in 1..Len(s) : s[i] = "."
    THEN CHOOSE i \in 1..Len(s) : s[i] = "." /\ \A j \in (i+1)..Len(s) : s[j] # "."
    ELSE 0

\* filename.rsplit(".", 1)[1], for a filename that contains "."
RSplitExt(s) == SubSeq(s, LastDot(s) + 1, Len(s))

(***************************************************************************)
(* Configuration                                                           *)
(***************************************************************************)
ALLOWED_EXTENSIONS == { <<"p","d","f">>, <<"d","o","c","x">> }

UPLOAD_FOLDER == <<"u","p","l","o","a","d","s">>

\* analysis.get("skills", [])[:20]
SKILL_LIMIT == 20

(***************************************************************************)
(* allowed_file                                                            *)
(***************************************************************************)
allowed_file(filename) ==
    /\ \E i \in 1..Len(filename) : filename[i] = "."
    /\ Lower(RSplitExt(filename)) \in ALLOWED_EXTENSIONS

(***************************************************************************)
(* werkzeug.utils.secure_filename                                          *)
(***************************************************************************)
\* a character outside ASCII that NFKD does not decompose to ASCII
NonAscii == "U+7B80"

IsAscii(c) == c # NonAscii

\* _filename_ascii_strip_re = [^A-Za-z0-9_.-]
IsSafeChar(c) ==
    c \in {"a","b","c","d","f","o","p","t","x","P","D","F","_",".","-"}

\* unicodedata.normalize("NFKD", ..).encode("ascii", "ignore")
AsciiOnly(s) == SelectSeq(s, IsAscii)

\* filename.replace(os.sep, " ")
ReplaceSep(s) == [i \in 1..Len(s) |-> IF s[i] = "/" THEN " " ELSE s[i]]

\* "_".join(filename.split())
RECURSIVE JoinSplit(_)
JoinSplit(s) ==
    IF s = <<>> THEN <<>>
    ELSE IF Head(s) = " " THEN JoinSplit(Tail(s))
    ELSE LET rest == Tail(s) IN
         IF rest = <<>> THEN <<Head(s)>>
         ELSE IF Head(rest) = " "
              THEN LET more == JoinSplit(rest) IN
                   IF more = <<>> THEN <<Head(s)>>
                   ELSE <<Head(s), "_">> \o more
              ELSE <<Head(s)>> \o JoinSplit(rest)

StripRe(s) == SelectSeq(s, IsSafeChar)

IsStripChar(c) == c \in {".", "_"}

\* str.strip("._")
RECURSIVE LStrip(_)
LStrip(s) ==
    IF s # <<>> /\ IsStripChar(Head(s)) THEN LStrip(Tail(s)) ELSE s

RECURSIVE RStrip(_)
RStrip(s) ==
    IF s # <<>> /\ IsStripChar(s[Len(s)]) THEN RStrip(SubSeq(s, 1, Len(s) - 1)) ELSE s

secure_filename(filename) ==
    RStrip(LStrip(StripRe(JoinSplit(ReplaceSep(AsciiOnly(filename))))))

\* os.path.join(app.config["UPLOAD_FOLDER"], filename)
PathJoin(folder, name) == folder \o <<"/">> \o name

(***************************************************************************)
(* Python values                                                           *)
(***************************************************************************)
PyInt(n) == [type |-> "int", num |-> n, text |-> <<>>]
PyStr(s) == [type |-> "str", num |-> 0, text |-> s]
PyNaN == [type |-> "float", num |-> 0, text |-> <<"n","a","n">>]

Digits == {"0","1","2","3","4","5","6","7","8","9"}

DigitValue(c) ==
    CASE c = "0" -> 0 [] c = "1" -> 1 [] c = "2" -> 2 [] c = "3" -> 3
      [] c = "4" -> 4 [] c = "5" -> 5 [] c = "6" -> 6 [] c = "7" -> 7
      [] c = "8" -> 8 [] OTHER -> 9

RECURSIVE ParseDigits(_)
ParseDigits(s) ==
    IF s = <<>> THEN 0
    ELSE 10 * ParseDigits(SubSeq(s, 1, Len(s) - 1)) + DigitValue(s[Len(s)])

\* int(v) raises ValueError
IntRaises(v) ==
    \/ v.type = "float"
    \/ /\ v.type = "str"
       /\ \/ v.text = <<>>
          \/ \E i \in 1..Len(v.text) : v.text[i] \notin Digits

\* int(v), when it does not raise
IntValue(v) == IF v.type = "int" THEN v.num ELSE ParseDigits(v.text)

(***************************************************************************)
(* format_recommendations                                                  *)
(***************************************************************************)
FormatOne(rec) ==
    [ course_id        |-> Get(rec, "course_id", ""),
      course_name      |-> Get(rec, "course_name", "Unknown Course"),
      instructor       |-> Get(rec, "instructor", "Unknown"),
      rating           |-> Get(rec, "course_rating", 0),
      platform         |-> Get(rec, "platform", "Unknown"),
      is_paid          |-> Get(rec, "is_paid", "Unknown"),
      enrolled         |-> IntValue(Get(rec, "Number_of_student_enrolled", PyInt(0))),
      match_percentage |-> Get(rec, "match_percentage", 0),
      match_reasons    |-> Get(rec, "match_reasons", <<>>),
      sources          |-> Get(rec, "sources", <<>>) ]

\* the loop leaves through the ValueError of int()
FormatRaises(recommendations) ==
    \E i \in 1..Len(recommendations) :
        IntRaises(Get(recommendations[i], "Number_of_student_enrolled", PyInt(0)))

\* format_recommendations with formatted.insert(0, ..) for formatted.append(..)
format_recommendations_Prepends(recommendations) ==
    [i \in 1..Len(recommendations) |->
        FormatOne(recommendations[Len(recommendations) + 1 - i])]

\* the list returned when the loop runs to its end
format_recommendations(recommendations) ==
    [i \in 1..Len(recommendations) |-> FormatOne(recommendations[i])]

(***************************************************************************)
(* Inputs of the requests                                                 *)
(***************************************************************************)
StemChars == {"a", ".", " ", "/", "_", NonAscii}

RECURSIVE SeqsUpTo(_, _)
SeqsUpTo(S, n) ==
    IF n = 0 THEN { <<>> }
    ELSE LET shorter == SeqsUpTo(S, n - 1) IN
         shorter \cup { Append(q, x) : q \in shorter, x \in S }

Extensions ==
    { <<>>, <<".","p","d","f">>, <<".","P","D","F">>, <<".","d","o","c","x">>,
      <<".","t","x","t">>, <<".","p","d","f",".">> }

\* filenames of concurrent uploads: two of them are secured to the same name
ConcNames ==
    { <<>>, <<"a"," ","b",".","p","d","f">>, <<"a","_","b",".","p","d","f">> }

\* filenames of the requests of the fair runs
FairNames == { <<>>, <<"a",".","t","x","t">>, <<"a","_","b",".","p","d","f">> }

FileNames ==
    ConcNames \cup FairNames \cup { stem \o ext : stem \in SeqsUpTo(StemChars, MaxStem), ext \in Extensions }

\* an uploaded document: what the Resume Analyzer can make of its bytes
ResumeDoc(n) == [kind |-> "resume", nskills |-> n]
EmptyDoc == [kind |-> "empty", nskills |-> 0]
CorruptDoc == [kind |-> "corrupt", nskills |-> 0]

SkillCounts == {1} \cup { n \in 1..MaxSkills : n >= SKILL_LIMIT - 1 }

Docs == { EmptyDoc, CorruptDoc } \cup { ResumeDoc(n) : n \in SkillCounts }

ConcDocs == { EmptyDoc, ResumeDoc(1) }

\* records as the engine hands them to the shell
RecInt ==
    [ course_id |-> "c1", course_name |-> "Python", course_rating |-> 5,
      Number_of_student_enrolled |-> PyInt(1500), match_percentage |-> 90 ]
RecStr ==
    [ course_id |-> "c2", course_name |-> "SQL", course_rating |-> 4,
      Number_of_student_enrolled |-> PyStr(<<"1","2">>), match_percentage |-> 70 ]
RecSparse ==
    [ course_id |-> "c3", match_percentage |-> 70 ]
RecMalformed ==
    [ course_id |-> "c4", course_name |-> "Go", course_rating |-> 3,
      Number_of_student_enrolled |-> PyStr(<<"N","/","A">>), match_percentage |-> 50 ]
RecNaN ==
    [ course_id |-> "c5", course_name |-> "Rust", course_rating |-> 3,
      Number_of_student_enrolled |-> PyNaN, match_percentage |-> 40 ]

RecKinds == { RecInt, RecStr, RecSparse, RecMalformed, RecNaN }

RecLists == SeqsUpTo(RecKinds, MaxRecs)

ConcRecLists == { <<RecInt>>, <<RecMalformed>> }

(***************************************************************************)
(* State                                                                   *)
(***************************************************************************)
VARIABLES
    pc,               \* where each request stands in upload_resume
    hasFile,          \* "resume" in request.files
    filename,         \* request.files["resume"].filename
    upload,           \* the bytes of the uploaded file
    filepath,         \* local filepath: <<>> is None, <<p>> the path p
    analysis,         \* local analysis: <<>> unassigned, <<a>> the value a
    recommendations,  \* local recommendations: <<>> unassigned, <<l>> the list l
    responses,        \* the responses sent for each request
    fs,               \* the files under UPLOAD_FOLDER: path |-> content
    components,       \* course_manager, resume_processor, recommendation_engine
    invoked,          \* history: the calls each request has made
    returned          \* history: the calls of each request that returned normally

vars ==
    << pc, hasFile, filename, upload, filepath, analysis, recommendations,
       responses, fs, components, invoked, returned >>

\* the file at path p: <<>> when there is none, <<c>> when its content is c
FileAt(p) == IF p \in DOMAIN fs THEN <<fs[p]>> ELSE <<>>

\* the files after content c is written at path p
Written(p, c) == [q \in DOMAIN fs \cup {p} |-> IF q = p THEN c ELSE fs[q]]

\* the files after the file at path p is removed
Removed(p) == [q \in DOMAIN fs \ {p} |-> fs[q]]

\* an empty directory
NoFiles == [q \in {} |-> 0]

NoDoc == [kind |-> "none", nskills |-> 0]
PartialDoc == [kind |-> "partial", nskills |-> 0]

LoadedComponents ==
    [ course_manager |-> "loaded", resume_processor |-> "loaded",
      recommendation_engine |-> "loaded" ]

Init ==
    /\ pc = [r \in Reqs |-> "idle"]
    /\ hasFile = [r \in Reqs |-> FALSE]
    /\ filename = [r \in Reqs |-> <<>>]
    /\ upload = [r \in Reqs |-> NoDoc]
    /\ filepath = [r \in Reqs |-> <<>>]
    /\ analysis = [r \in Reqs |-> <<>>]
    /\ recommendations = [r \in Reqs |-> <<>>]
    /\ responses = [r \in Reqs |-> <<>>]
    /\ fs = NoFiles
    /\ components = LoadedComponents
    /\ invoked = [r \in Reqs |-> {}]
    /\ returned = [r \in Reqs |-> {}]

(***************************************************************************)
(* Collaborators of the shell                                              *)
(***************************************************************************)
\* None
PyNone == [k \in {} |-> 0]

\* the profile the Resume Analyzer builds from a resume with n skills
Profile(n) ==
    [ skills |-> [i \in 1..n |-> i], skill_count |-> n,
      experience_level |-> "mid", domains |-> <<"web">>, education |-> <<>> ]

\* resume_processor.process_resume(filepath) on the file now at that path:
\* the ways the call can end
ProcessEnds(file) ==
    IF file = <<>> THEN {"raise", "none"}
    ELSE CASE file[1].doc.kind = "resume" -> {"profile"}
           [] file[1].doc.kind = "empty" -> {"none"}
           [] OTHER -> {"raise", "none"}

\* file.save(filepath): written, failed before the file was opened, or
\* failed after part of it was written
SaveEnds == {"saved", "raise", "raise_partial"}

(***************************************************************************)
(* Responses                                                               *)
(***************************************************************************)
Response(status, body) == [status |-> status, body |-> body]

NoFileUploaded == Response(400, [error |-> "No file uploaded"])
NoFileSelected == Response(400, [error |-> "No file selected"])
InvalidFileType == Response(400, [error |-> "Invalid file type. Please upload PDF or DOCX"])
FailedToProcess ==
    Response(400, [error |-> "Failed to process resume. Please ensure it is a valid PDF or DOCX file"])
ErrorOccurred == Response(500, [error |-> "An error occurred"])
\* server_error, the handler of an exception that leaves upload_resume
InternalServerError == Response(500, [error |-> "Internal server error"])

\* response_data with skill_count taken from the truncated list
ResponseData_CountsTruncated(a, recs) ==
    [ success |-> TRUE,
      analysis |->
        [ skills |-> Prefix(Get(a, "skills", <<>>), SKILL_LIMIT),
          skill_count |-> Len(Prefix(Get(a, "skills", <<>>), SKILL_LIMIT)),
          experience_level |-> Get(a, "experience_level", ""),
          domains |-> Get(a, "domains", <<>>),
          education |-> Get(a, "education", <<>>) ],
      recommendations |-> format_recommendations(recs),
      total_recommendations |-> Len(recs) ]

\* response_data of a request whose try block ran to its end
ResponseData(a, recs) ==
    [ success |-> TRUE,
      analysis |->
        [ skills |-> Prefix(Get(a, "skills", <<>>), SKILL_LIMIT),
          skill_count |-> Get(a, "skill_count", 0),
          experience_level |-> Get(a, "experience_level", ""),
          domains |-> Get(a, "domains", <<>>),
          education |-> Get(a, "education", <<>>) ],
      recommendations |-> format_recommendations(recs),
      total_recommendations |-> Len(recs) ]

\* return jsonify(...), status
Reply(r, resp) ==
    /\ responses' = [responses EXCEPT ![r] = Append(@, resp)]
    /\ pc' = [pc EXCEPT ![r] = "done"]

\* request r calls `call`, which returns normally or raises
Call(r, call, raises) ==
    /\ invoked' = [invoked EXCEPT ![r] = @ \cup {call}]
    /\ returned' = [returned EXCEPT ![r] = IF raises THEN @ ELSE @ \cup {call}]

Goto(r, label) ==
    /\ pc' = [pc EXCEPT ![r] = label]
    /\ UNCHANGED responses

(***************************************************************************)
(* upload_resume, one action per step that other requests can interleave   *)
(***************************************************************************)
\* upload_resume with the file-type check made before the empty-filename check
Validate_ChecksTypeFirst(r, names, docs) ==
    /\ pc[r] = "idle"
    /\ \E has \in BOOLEAN, fn \in names, d \in docs :
        /\ has \/ (fn = <<>> /\ d = EmptyDoc)
        /\ hasFile' = [hasFile EXCEPT ![r] = has]
        /\ filename' = [filename EXCEPT ![r] = fn]
        /\ upload' = [upload EXCEPT ![r] = IF has THEN d ELSE NoDoc]
        /\ IF ~has
           THEN Reply(r, NoFileUploaded) /\ UNCHANGED filepath
           ELSE IF ~allowed_file(fn)
           THEN Reply(r, InvalidFileType) /\ UNCHANGED filepath
           ELSE IF fn = <<>>
           THEN Reply(r, NoFileSelected) /\ UNCHANGED filepath
           ELSE /\ filepath' = [filepath EXCEPT ![r] =
                                   <<PathJoin(UPLOAD_FOLDER, secure_filename(fn))>>]
                /\ Goto(r, "save")
    /\ UNCHANGED <<analysis, recommendations, fs, components, invoked, returned>>

\* the three checks of the request, then secure_filename and os.path.join
Validate(r, names, docs) ==
    /\ pc[r] = "idle"
    /\ \E has \in BOOLEAN, fn \in names, d \in docs :
        /\ has \/ (fn = <<>> /\ d = EmptyDoc)
        /\ hasFile' = [hasFile EXCEPT ![r] = has]
        /\ filename' = [filename EXCEPT ![r] = fn]
        /\ upload' = [upload EXCEPT ![r] = IF has THEN d ELSE NoDoc]
        /\ IF ~has
           THEN Reply(r, NoFileUploaded) /\ UNCHANGED filepath
           ELSE IF fn = <<>>
           THEN Reply(r, NoFileSelected) /\ UNCHANGED filepath
           ELSE IF ~allowed_file(fn)
           THEN Reply(r, InvalidFileType) /\ UNCHANGED filepath
           ELSE /\ filepath' = [filepath EXCEPT ![r] =
                                   <<PathJoin(UPLOAD_FOLDER, secure_filename(fn))>>]
                /\ Goto(r, "save")
    /\ UNCHANGED <<analysis, recommendations, fs, components, invoked, returned>>

\* file.save(filepath)
Save(r) ==
    /\ pc[r] = "save"
    /\ \E end \in SaveEnds :
        /\ fs' = CASE end = "saved" ->
                        Written(filepath[r][1], [owner |-> r, doc |-> upload[r]])
                   [] end = "raise_partial" ->
                        Written(filepath[r][1], [owner |-> r, doc |-> PartialDoc])
                   [] OTHER -> fs
        /\ Call(r, "save", end # "saved")
        /\ Goto(r, IF end = "saved" THEN "process" ELSE "exc_exists")
    /\ UNCHANGED <<hasFile, filename, upload, filepath, analysis, recommendations, components>>

\* analysis = resume_processor.process_resume(filepath); if not analysis
Process(r) ==
    /\ pc[r] = "process"
    /\ \E end \in ProcessEnds(FileAt(filepath[r][1])) :
        /\ Call(r, "process_resume", end = "raise")
        /\ CASE end = "raise" ->
                  Goto(r, "exc_exists") /\ UNCHANGED analysis
             [] end = "none" ->
                  /\ analysis' = [analysis EXCEPT ![r] = <<PyNone>>]
                  /\ Goto(r, IF Truthy(PyNone) THEN "recommend" ELSE "fail_exists")
             [] OTHER ->
                  LET a == Profile(fs[filepath[r][1]].doc.nskills) IN
                  /\ analysis' = [analysis EXCEPT ![r] = <<a>>]
                  /\ Goto(r, IF Truthy(a) THEN "recommend" ELSE "fail_exists")
    /\ UNCHANGED <<hasFile, filename, upload, filepath, recommendations, fs, components>>

\* recommendations = recommendation_engine.get_recommendations(analysis)
Recommend(r, lists) ==
    /\ pc[r] = "recommend"
    /\ \E raises \in BOOLEAN, recs \in lists :
        /\ Call(r, "get_recommendations", raises)
        /\ IF raises
           THEN /\ recs = CHOOSE l \in lists : TRUE
                /\ Goto(r, "exc_exists") /\ UNCHANGED recommendations
           ELSE /\ recommendations' = [recommendations EXCEPT ![r] = <<recs>>]
                /\ Goto(r, "ok_exists")
    /\ UNCHANGED <<hasFile, filename, upload, filepath, analysis, fs, components>>

\* the cleanup sites: "fail" (not analysis), "ok" (after the engine), "exc" (except)
Site(label) ==
    CASE label \in {"fail_exists", "fail_remove"} -> "fail"
      [] label \in {"ok_exists", "ok_remove"} -> "ok"
      [] label \in {"exc_exists", "exc_remove"} -> "exc"
      [] OTHER -> "none"

\* the cleanup of the "not analysis" branch without its return: the request
\* goes on to the engine
AfterCleanup_FallsThrough(r, site) ==
    CASE site = "fail" -> Goto(r, "recommend")
      [] site = "ok" -> Goto(r, "respond")
      [] OTHER -> Reply(r, ErrorOccurred)

\* what follows a cleanup that did not raise
AfterCleanup(r, site) ==
    CASE site = "fail" -> Reply(r, FailedToProcess)
      [] site = "ok" -> Goto(r, "respond")
      [] OTHER -> Reply(r, ErrorOccurred)

\* an except clause that answers without cleaning up
Exists_NoCleanupOnError(r) ==
    /\ pc[r] \in {"fail_exists", "ok_exists", "exc_exists"}
    /\ IF Site(pc[r]) # "exc" /\ filepath[r] # <<>> /\ FileAt(filepath[r][1]) # <<>>
       THEN Goto(r, Site(pc[r]) \o "_remove")
       ELSE AfterCleanup(r, Site(pc[r]))
    /\ UNCHANGED <<hasFile, filename, upload, filepath, analysis, recommendations, fs,
                   components, invoked, returned>>

\* if filepath and os.path.exists(filepath)
Exists(r) ==
    /\ pc[r] \in {"fail_exists", "ok_exists", "exc_exists"}
    /\ IF filepath[r] # <<>> /\ FileAt(filepath[r][1]) # <<>>
       THEN Goto(r, Site(pc[r]) \o "_remove")
       ELSE AfterCleanup(r, Site(pc[r]))
    /\ UNCHANGED <<hasFile, filename, upload, filepath, analysis, recommendations, fs,
                   components, invoked, returned>>

\* os.remove(filepath): FileNotFoundError when the file is gone; raised in the
\* try block it reaches the except clause, raised in the except clause it
\* leaves upload_resume and is answered by server_error
Remove(r) ==
    /\ pc[r] \in {"fail_remove", "ok_remove", "exc_remove"}
    /\ IF FileAt(filepath[r][1]) # <<>>
       THEN /\ fs' = Removed(filepath[r][1])
            /\ AfterCleanup(r, Site(pc[r]))
       ELSE /\ UNCHANGED fs
            /\ IF Site(pc[r]) = "exc"
               THEN Reply(r, InternalServerError)
               ELSE Goto(r, "exc_exists")
    /\ UNCHANGED <<hasFile, filename, upload, filepath, analysis, recommendations,
                   components, invoked, returned>>

\* response_data = {...}; return jsonify(response_data), 200
Respond(r) ==
    /\ pc[r] = "respond"
    /\ Call(r, "format_recommendations", FormatRaises(recommendations[r][1]))
    /\ IF FormatRaises(recommendations[r][1])
       THEN Goto(r, "exc_exists")
       ELSE Reply(r, Response(200, ResponseData(analysis[r][1], recommendations[r][1])))
    /\ UNCHANGED <<hasFile, filename, upload, filepath, analysis, recommendations, fs, components>>

(***************************************************************************)
(* Specifications                                                          *)
(***************************************************************************)
Step(r) ==
    \/ Save(r)
    \/ Process(r)
    \/ Exists(r)
    \/ Remove(r)
    \/ Respond(r)

\* concurrent requests over a shared UPLOAD_FOLDER
Next ==
    \E r \in Reqs :
        \/ Validate(r, ConcNames, ConcDocs)
        \/ Recommend(r, ConcRecLists)
        \/ Step(r)

Spec == Init /\ [][Next]_vars

\* the steps of a request that has passed the checks
Running(r) == Recommend(r, ConcRecLists) \/ Step(r)

\* concurrent requests that all upload under one name
NextFair ==
    \E r \in Reqs :
        \/ Validate(r, FairNames, ConcDocs)
        \/ Running(r)

\* a worker runs every request it has accepted to its response
FairSpec == Init /\ [][NextFair]_vars /\ \A r \in Reqs : WF_vars(Running(r))

\* one request at a time, over all the inputs
NextOne ==
    \/ Validate(1, FileNames, Docs)
    \/ Recommend(1, RecLists)
    \/ Step(1)

SpecOne == Init /\ [][NextOne]_vars

(***************************************************************************)
(* Properties                                                              *)
(***************************************************************************)
Done(r) == pc[r] = "done"

\* every request that was made has returned its response
AllReturned == \A r \in Reqs : pc[r] \in {"idle", "done"}

Status(r) == responses[r][1].status

Body(r) == responses[r][1].body

C2_FalsyAnalysisIs400 ==
    \A r \in Reqs :
        (analysis[r] # <<>> /\ ~Truthy(analysis[r][1])) =>
            /\ "get_recommendations" \notin invoked[r]
            /\ Done(r) => /\ Status(r) = 400
                          /\ "recommendations" \notin DOMAIN Body(r)

\* C3: the file a request passes to process_resume exists and holds the
\* bytes that same request saved, whatever the other requests do.
C3_OwnFileProcessed ==
    \A r \in Reqs :
        pc[r] = "process" => FileAt(filepath[r][1]) = <<[owner |-> r, doc |-> upload[r]]>>

\* C4: an upload that parsed but gave no usable signal and an upload that
\* cannot be parsed are both answered with a 4xx status, and the answer to
\* the second differs from the answer to the first.
C4_DistinctUserErrors ==
    \A r \in Reqs :
        (Done(r) /\ "save" \in returned[r] /\ "process_resume" \in invoked[r]) =>
            /\ upload[r].kind \in {"empty", "corrupt"} => Status(r) \in 400..499
            /\ upload[r].kind = "corrupt" => responses[r][1] # FailedToProcess

\* the records of a list that int() accepts
WellFormed(recs) ==
    LET ok(rec) == ~IntRaises(Get(rec, "Number_of_student_enrolled", PyInt(0)))
    IN SelectSeq(recs, ok)

\* C5: a malformed record among the recommendations does not fail the
\* request: it is answered with status 200 and the well-formed records are
\* returned.
C5_MalformedRecordSkipped ==
    \A r \in Reqs :
        (Done(r) /\ "get_recommendations" \in returned[r]) =>
            /\ Status(r) = 200
            /\ Body(r).recommendations =
                   format_recommendations(WellFormed(recommendations[r][1]))

\* the path ends with "." and an allowed extension, the one of the raw filename
KeepsExtension(path, raw) ==
    /\ LastDot(path) > 0
    /\ Lower(RSplitExt(path)) \in ALLOWED_EXTENSIONS
    /\ RSplitExt(path) = RSplitExt(raw)

\* C6: the path passed to process_resume ends with "." followed by an
\* allowed extension: the extension allowed_file accepted on the raw
\* filename is still the extension of the path.
C6_PathKeepsExtension ==
    \A r \in Reqs :
        pc[r] = "process" => KeepsExtension(filepath[r][1], filename[r])

\* the analysis is consistent on input
Consistent(a) == Get(a, "skill_count", 0) = Len(Get(a, "skills", <<>>))

\* C7 as stated: in every 200 response, analysis.skill_count equals the
\* number of entries of analysis.skills of that response, for every analysis
\* consistent on input.
C7_CountMatchesList ==
    \A r \in Reqs :
        (Done(r) /\ Status(r) = 200 /\ Consistent(analysis[r][1])) =>
            Body(r).analysis.skill_count = Len(Body(r).analysis.skills)

\* C7 as amended: in every 200 response, for every analysis consistent on
\* input, analysis.skill_count is the analysis' skill_count and
\* analysis.skills its first 20 skills; the two agree when the analysis has
\* at most 20 skills.
C7_CountMatchesListUpTo20 ==
    \A r \in Reqs :
        (Done(r) /\ Status(r) = 200 /\ Consistent(analysis[r][1])) =>
            LET n == Len(analysis[r][1].skills) IN
            /\ Body(r).analysis.skill_count = n
            /\ Len(Body(r).analysis.skills) = Min(n, 20)
            /\ \A i \in 1..Min(n, 20) :
                   Body(r).analysis.skills[i] = analysis[r][1].skills[i]
            /\ n <= 20 => Body(r).analysis.skill_count = Len(Body(r).analysis.skills)

\* a 200 response for a resume with more than 20 skills
C7_Witness ==
    \E r \in Reqs :
        /\ Done(r) /\ Status(r) = 200
        /\ Len(analysis[r][1].skills) = 21
        /\ Len(Body(r).analysis.skills) = 20

C8_OneResponse ==
    \A r \in Reqs :
        /\ Len(responses[r]) = IF Done(r) THEN 1 ELSE 0
        /\ Done(r) => Status(r) \in {200, 400, 500}
        /\ (Done(r) /\ Status(r) = 200) =>
              /\ analysis[r] # <<>> /\ Truthy(analysis[r][1])
              /\ {"get_recommendations", "format_recommendations"} \subseteq returned[r]
        /\ components = LoadedComponents

SortedDesc(recs) ==
    \A i, j \in 1..Len(recs) :
        i < j => recs[i].match_percentage >= recs[j].match_percentage

FirstFailure(r) ==
    IF ~hasFile[r] THEN NoFileUploaded
    ELSE IF filename[r] = <<>> THEN NoFileSelected
    ELSE InvalidFileType

\* C10: a request without a 'resume' field, with an empty filename or with a
\* filename allowed_file rejects is answered 400 with the message of the
\* first check it fails, saves no file and invokes neither process_resume
\* nor get_recommendations.
C10_RejectedWithoutEffect ==
    \A r \in Reqs :
        (pc[r] # "idle" /\ (~hasFile[r] \/ filename[r] = <<>> \/ ~allowed_file(filename[r]))) =>
            /\ Done(r)
            /\ responses[r] = <<FirstFailure(r)>>
            /\ Status(r) = 400
            /\ invoked[r] = {}
            /\ \A p \in DOMAIN fs : fs[p].owner # r

\* a request rejected for its extension
C10_Witness ==
    \E r \in Reqs :
        /\ Done(r) /\ hasFile[r] /\ filename[r] # <<>>
        /\ responses[r] = <<InvalidFileType>>

====
